---- MODULE Spec2Model ----
(***************************************************************************)
(* Model of the license_scanner package: the dependancy scanners, the      *)
(* license recognizers with their cache, the license acceptors and the     *)
(* scan() pipeline that chains them.                                       *)
(*                                                                         *)
(* A Python str is a sequence of pieces: package names, prefixes and       *)
(* patterns are sequences of one-character strings, so that startswith,    *)
(* split, comparison and matching are computed rather than assumed; the    *)
(* class names are one piece each.  Python's None is the sequence          *)
(* <<"None">>, the value of no str of the model.                           *)
(***************************************************************************)
EXTENDS Integers, Sequences, FiniteSets, TLC

VARIABLES
    pc,            \* position of the caller: which stage runs next
    error,         \* the exception that ended the run and the stage that raised it
    trace,         \* history: the stage functions called so far, in order
    scanners,      \* argument dependancy_scanners of scan()
    recognizers,   \* argument license_recognizers of scan()
    acceptors,     \* argument license_acceptors of scan()
    reporters,     \* argument license_reporters of scan()
    entries,       \* the list of LicenseReportEntry threaded through the stages
    unaccepted,    \* indices (into entries) of the list returned by accept_all
    resolved,      \* JsonFileLicenseCache._resolved
    has_changed,   \* JsonFileLicenseCache._has_changed
    resolved0,     \* history: _resolved as loaded when the cache was constructed
    ei,            \* recognize_all: index of the entry being recognized
    ri,            \* _recognize_entry: index of the recognizer tried next
    clock,         \* time.time()
    calls,         \* history: one record per Recognizer.recognize call
    zero_seen,     \* history: a rate-limit check has reported remaining == 0
    first_run,     \* history: entries as they were after the first recognize_all
    runs,          \* number of recognize_all calls started
    accept_calls,  \* history: for each entry, what _try_all_acceptors did and returned
    accept_runs,   \* number of accept_all calls made
    first_accept,  \* history: accept_calls of the first accept_all call
    order,         \* the insertion order of the keys of JsonFileLicenseCache._resolved
    file,          \* the 'resolved-licenses' list of the cache file, None without file
    ops,           \* number of write and update_cache_file calls and reconstructions
    last_op,       \* history: the last such call, its argument and its outcome
    last_read,     \* history: the last read call, if no other call followed it
    written,       \* history: the last entry written per package since construction
    rp,            \* report_all: index of the reporter whose generate_report runs next
    report_calls,  \* history: one record per generate_report call
    args,          \* the arguments of a function applied on its own
    applied,       \* history: what the function applied to args returned or raised
    quota,         \* the remaining quota the GitHub API really has
    workers,       \* per thread calling do_recognize: where it stands and what it saw
    lookups        \* history: one record per license lookup issued by a thread

config_vars == <<scanners, recognizers, acceptors, reporters>>
cache_vars == <<resolved, has_changed, resolved0>>
recognize_vars == <<ei, ri, clock, calls, zero_seen, first_run, runs>>
accept_vars == <<unaccepted, accept_calls, accept_runs, first_accept>>
api_vars == <<file, ops, last_op, last_read, written>>
report_vars == <<rp, report_calls>>
call_vars == <<args, applied>>
thread_vars == <<quota, workers, lookups>>
unit_vars == <<report_vars, call_vars, thread_vars>>
vars == <<pc, error, trace, config_vars, entries, cache_vars, recognize_vars, accept_vars,
          order, api_vars, unit_vars>>

----------------------------------------------------------------------------
(* Python values *)

None == <<"None">>

\* None where the value would otherwise be an object or a dict
NoneObject == [none |-> TRUE]

\* the three results of accept_or_reject
PyTrue == "True"
PyFalse == "False"
PyNone == "None"

\* an argument that is a list or None
ListOf(items) == [items |-> items]

\* bool(s) of an optional str: None and "" are falsy
Truthy(s) == s # None /\ s # <<>>

\* the characters used, in ascending code point order
Chars == <<".", "/", "2", "A", "I", "M", "T", "a", "b", "c", "d", "e", "f", "g",
           "h", "i", "m", "o", "t", "u", "x">>

Ord(c) == CHOOSE i \in 1..Len(Chars) : Chars[i] = c

\* a < b for two str
RECURSIVE StrLess(_, _)
StrLess(a, b) ==
    IF b = <<>> THEN FALSE
    ELSE IF a = <<>> THEN TRUE
    ELSE IF Head(a) = Head(b) THEN StrLess(Tail(a), Tail(b))
    ELSE Ord(Head(a)) < Ord(Head(b))

\* str.startswith
StartsWith(s, prefix) ==
    /\ Len(prefix) <= Len(s)
    /\ SubSeq(s, 1, Len(prefix)) = prefix

\* str.split(sep) for a one-character separator
RECURSIVE SplitFrom(_, _, _)
SplitFrom(s, sep, cur) ==
    IF s = <<>> THEN <<cur>>
    ELSE IF Head(s) = sep THEN <<cur>> \o SplitFrom(Tail(s), sep, <<>>)
    ELSE SplitFrom(Tail(s), sep, Append(cur, Head(s)))

Split(s, sep) == SplitFrom(s, sep, <<>>)

----------------------------------------------------------------------------
(* cache.py: LicenseReportEntry *)

LicenseReportEntry(package, scanner_name) ==
    [package |-> package,
     license_name |-> None,
     license_url |-> None,
     license_encoded |-> None,
     license_recognized_at |-> None,
     dependancy_scanner_name |-> scanner_name,
     license_recognizer_name |-> None]

----------------------------------------------------------------------------
(* the package names of the model *)

GitHubCom == <<"g", "i", "t", "h", "u", "b", ".", "c", "o", "m">>
PkgGitHub == GitHubCom \o <<"/", "a", "/", "b">>     \* github.com/a/b
PkgGitHubShort == GitHubCom \o <<"/", "a">>          \* github.com/a
PkgMappedTarget == GitHubCom \o <<"/", "c", "/", "d">> \* github.com/c/d
PkgPrefixed == <<"t", "/", "x">>                     \* t/x
PkgMapped == <<"t", "m">>                            \* tm
PkgOther == <<"f">>                                  \* f
PkgThree == <<"t", "/", "x", "/", "x">>              \* t/x/x

----------------------------------------------------------------------------
(* dependancies.py *)

\* DependancyScanner.scan: every entry has package and dependancy_scanner_name
Scanner_scan(scanner) ==
    [i \in 1..Len(scanner.out) |-> LicenseReportEntry(scanner.out[i], scanner.name)]

Whitespace == {" ", "\t", "\n"}

\* str.split() without argument: the runs of characters other than whitespace
RECURSIVE SplitWhitespaceFrom(_, _)
SplitWhitespaceFrom(s, cur) ==
    IF s = <<>> THEN (IF cur = <<>> THEN <<>> ELSE <<cur>>)
    ELSE IF Head(s) \in Whitespace
    THEN (IF cur = <<>> THEN <<>> ELSE <<cur>>) \o SplitWhitespaceFrom(Tail(s), <<>>)
    ELSE SplitWhitespaceFrom(Tail(s), Append(cur, Head(s)))

SplitWhitespace(s) == SplitWhitespaceFrom(s, <<>>)

StrTrue == <<"t", "r", "u", "e">>
StrFalse == <<"f", "a", "l", "s", "e">>

_NUMBER_OF_COLUMNS_IN_DEPENDANCY_LIST_REPORT == 3

\* _line_as_tuple keeping the first three of three or more columns
_line_as_tuple_at_least_three(line) ==
    LET entry == SplitWhitespace(line) IN
    IF Len(entry) < _NUMBER_OF_COLUMNS_IN_DEPENDANCY_LIST_REPORT THEN NoneObject
    ELSE [dependancy |-> entry[1], is_main |-> entry[2] = StrTrue,
          is_indirect |-> entry[3] = StrTrue]

\* GoModuleDependancyScanner._line_as_tuple: the tuple, or None
_line_as_tuple(line) ==
    LET entry == SplitWhitespace(line) IN
    IF Len(entry) # _NUMBER_OF_COLUMNS_IN_DEPENDANCY_LIST_REPORT THEN NoneObject
    ELSE [dependancy |-> entry[1], is_main |-> entry[2] = StrTrue,
          is_indirect |-> entry[3] = StrTrue]

GoModuleDependancyScannerName == <<"GoModuleDependancyScanner">>

\* the loop of GoModuleDependancyScanner.scan over the lines of the output of
\* go list, from line i on
RECURSIVE GoModule_scan_loop(_, _, _)
GoModule_scan_loop(lines, i, ret) ==
    IF i > Len(lines) THEN ret
    ELSE LET entry == _line_as_tuple(lines[i]) IN
         IF entry = NoneObject THEN GoModule_scan_loop(lines, i + 1, ret)
         ELSE IF entry.is_main THEN GoModule_scan_loop(lines, i + 1, ret)
         ELSE GoModule_scan_loop(lines, i + 1,
                  Append(ret, LicenseReportEntry(entry.dependancy,
                                                 GoModuleDependancyScannerName)))

\* GoModuleDependancyScanner.scan, given what go list prints
GoModuleDependancyScanner_scan(lines) == GoModule_scan_loop(lines, 1, <<>>)

\* a dict is a function; d[k] = v for a key that may be new
DictSet(d, k, v) == [x \in DOMAIN d \cup {k} |-> IF x = k THEN v ELSE d[x]]

EmptyDict == [x \in {} |-> None]

\* _add_new_entries without the test for a package already present
RECURSIVE _add_new_entries_overwriting(_, _)
_add_new_entries_overwriting(combined, new_entries) ==
    IF new_entries = <<>> THEN combined
    ELSE _add_new_entries_overwriting(
             DictSet(combined, Head(new_entries).package, Head(new_entries)),
             Tail(new_entries))

RECURSIVE _add_new_entries(_, _)
_add_new_entries(combined, new_entries) ==
    IF new_entries = <<>> THEN combined
    ELSE LET item == Head(new_entries) IN
         IF item.package \in DOMAIN combined
         THEN _add_new_entries(combined, Tail(new_entries))
         ELSE _add_new_entries(DictSet(combined, item.package, item), Tail(new_entries))

\* sorted(values, key=attrgetter('package')) of values with distinct packages
RECURSIVE SortedByPackage(_)
SortedByPackage(S) ==
    IF S = {} THEN <<>>
    ELSE LET m == CHOOSE e \in S : \A o \in S : o = e \/ StrLess(e.package, o.package)
         IN <<m>> \o SortedByPackage(S \ {m})

DictValues(d) == {d[k] : k \in DOMAIN d}

\* the loop of scan_all over the scanners from position i on
RECURSIVE scan_all_loop(_, _, _, _)
scan_all_loop(scs, i, found_a_scanner, combined_entries) ==
    IF i > Len(scs)
    THEN [found_a_scanner |-> found_a_scanner, combined_entries |-> combined_entries]
    ELSE IF scs[i].handles
         THEN scan_all_loop(scs, i + 1, TRUE,
                            _add_new_entries(combined_entries, Scanner_scan(scs[i])))
         ELSE scan_all_loop(scs, i + 1, found_a_scanner, combined_entries)

\* scan_all without the test of found_a_scanner
scan_all_never_raising(scs) ==
    [raised |-> FALSE,
     value |-> SortedByPackage(DictValues(scan_all_loop(scs, 1, FALSE, EmptyDict).combined_entries))]

\* scan_all: the list returned, or the RuntimeError raised
scan_all(scs) ==
    LET r == scan_all_loop(scs, 1, FALSE, EmptyDict) IN
    IF ~r.found_a_scanner
    THEN [raised |-> TRUE, value |-> <<>>]
    ELSE [raised |-> FALSE, value |-> SortedByPackage(DictValues(r.combined_entries))]

----------------------------------------------------------------------------
(* cache.py: JsonFileLicenseCache; _resolved maps a package to the dict of an entry *)

Fields == {"package", "license_name", "license_url", "license_encoded",
           "license_recognized_at", "dependancy_scanner_name", "license_recognizer_name"}

\* dataclasses.asdict(entry): one item per field of the dataclass
asdict(entry) == [f \in Fields |-> entry[f]]

\* LicenseReportEntry(**jsn)
EntryFromDict(jsn) == [f \in Fields |-> jsn[f]]

\* JsonFileLicenseCache.read: the entry, or None
Cache_read(res, package) ==
    IF package \in DOMAIN res THEN EntryFromDict(res[package]) ELSE NoneObject

\* write that keeps the dict of a package already cached
Cache_write_keeping_first(res, entry) ==
    IF entry.package \in DOMAIN res THEN res ELSE DictSet(res, entry.package, asdict(entry))

\* JsonFileLicenseCache.write: the new _resolved (and _has_changed becomes True)
Cache_write(res, entry) == DictSet(res, entry.package, asdict(entry))

\* the order of the keys of _resolved after write: a dict keeps insertion order
\* and assigning to a key already present keeps its position
Cache_write_order(ord, entry) ==
    IF \E i \in 1..Len(ord) : ord[i] = entry.package THEN ord
    ELSE Append(ord, entry.package)

\* json.dump of a str: quoted, with '"' and '\' escaped
RECURSIVE JsonEscape(_)
JsonEscape(s) ==
    IF s = <<>> THEN <<>>
    ELSE IF Head(s) \in {"\"", "\\"} THEN <<"\\", Head(s)>> \o JsonEscape(Tail(s))
    ELSE <<Head(s)>> \o JsonEscape(Tail(s))

\* json.load of the inside of a JSON string
RECURSIVE JsonUnescape(_)
JsonUnescape(t) ==
    IF t = <<>> THEN <<>>
    ELSE IF Head(t) = "\\" /\ Len(t) >= 2 THEN <<t[2]>> \o JsonUnescape(SubSeq(t, 3, Len(t)))
    ELSE <<Head(t)>> \o JsonUnescape(Tail(t))

JsonNull == <<"n", "u", "l", "l">>

\* json.dump of an optional str: None is null, a str is a JSON string
JsonDumpValue(v) ==
    IF v = None THEN JsonNull ELSE <<"\"">> \o JsonEscape(v) \o <<"\"">>

\* json.load taking null for a string like any other
JsonLoadValue_null_as_text(t) == JsonUnescape(SubSeq(t, 2, Len(t) - 1))

\* json.load of a JSON null or a JSON string
JsonLoadValue(t) ==
    IF t = JsonNull THEN None ELSE JsonUnescape(SubSeq(t, 2, Len(t) - 1))

\* json.dump and json.load of the dict of an entry
JsonDumpObject(jsn) == [f \in DOMAIN jsn |-> JsonDumpValue(jsn[f])]

JsonLoadObject(obj) == [f \in DOMAIN obj |-> JsonLoadValue(obj[f])]

\* list.sort(key=lambda lic: lic['package']) of dicts whose packages are all str:
\* lic goes before the first element whose package is greater (the sort is stable)
RECURSIVE SortInsert(_, _)
SortInsert(sorted, lic) ==
    IF sorted = <<>> THEN <<lic>>
    ELSE IF StrLess(lic.package, Head(sorted).package) THEN <<lic>> \o sorted
    ELSE <<Head(sorted)>> \o SortInsert(Tail(sorted), lic)

\* the list left in the order of list(self._resolved.values())
ListSort_keeping_order(lst) == lst

RECURSIVE ListSort(_)
ListSort(lst) ==
    IF Len(lst) <= 1 THEN lst
    ELSE SortInsert(ListSort(SubSeq(lst, 1, Len(lst) - 1)), lst[Len(lst)])

\* list(self._resolved.values()): the dicts in the insertion order of their keys
ResolvedValues(res, ord) == [i \in 1..Len(ord) |-> res[ord[i]]]

\* comparing None with a str while sorting raises TypeError
SortRaises(lst) == Len(lst) >= 2 /\ \E i \in 1..Len(lst) : lst[i].package = None

\* JsonFileLicenseCache.update_cache_file: what it returns or raises, whether it
\* wrote the file, and the 'resolved-licenses' list of the file afterwards (None:
\* there is no file)
update_cache_file(res, ord, changed, f) ==
    IF changed
    THEN LET lst == ResolvedValues(res, ord) IN
         IF SortRaises(lst)
         THEN [ret |-> PyNone, raised |-> "TypeError", wrote |-> FALSE, file |-> f]
         ELSE LET sorted == ListSort(lst) IN
              [ret |-> PyTrue, raised |-> "none", wrote |-> TRUE,
               file |-> ListOf([i \in 1..Len(sorted) |-> JsonDumpObject(sorted[i])])]
    ELSE [ret |-> PyFalse, raised |-> "none", wrote |-> FALSE, file |-> f]

\* the loop of _read_cache_from_file over the list of the file from position i on
RECURSIVE read_cache_loop(_, _, _, _)
read_cache_loop(lics, i, res, ord) ==
    IF i > Len(lics) THEN [resolved |-> res, order |-> ord]
    ELSE LET lic == JsonLoadObject(lics[i]) IN
         read_cache_loop(lics, i + 1, DictSet(res, lic.package, lic),
                         Cache_write_order(ord, lic))

\* JsonFileLicenseCache._read_cache_from_file: _resolved and the order of its keys
_read_cache_from_file(f) ==
    IF f = NoneObject THEN [resolved |-> EmptyDict, order |-> <<>>]
    ELSE read_cache_loop(f.items, 1, EmptyDict, <<>>)

----------------------------------------------------------------------------
(* recognizers.py *)

\* _secs_to_time_string: one string per second
Digits == <<"0", "1", "2", "3", "4", "5", "6", "7", "8", "9">>

RECURSIVE Decimal(_)
Decimal(n) == IF n < 10 THEN <<Digits[n + 1]>> ELSE Decimal(n \div 10) \o <<Digits[(n % 10) + 1]>>

_secs_to_time_string(secs) == <<"T">> \o Decimal(secs)

\* Response.status_code is 2xx
_is_ok_response(resp) == resp.status_code >= 200 /\ resp.status_code < 300

\* what requests.get can give for https://api.github.com/rate_limit
ConnectionError == [exception |-> "ConnectionError"]

RateLimitKinds == {"zero", "quota", "bad", "ConnectionError"}

RateLimitResponse(kind) ==
    IF kind = "zero" THEN [exception |-> "none", status_code |-> 200, remaining |-> 0]
    ELSE IF kind = "quota" THEN [exception |-> "none", status_code |-> 200, remaining |-> 1]
    ELSE IF kind = "bad" THEN [exception |-> "none", status_code |-> 403, remaining |-> 0]
    ELSE ConnectionError

\* what requests.get can give for https://api.github.com/repos/<owner>/<project>/license;
\* license is the value of j['license'], None for JSON null
LicenseMIT == <<"M", "I", "T">>
LicenseApache == <<"A", "2">>

RemoteLicense(owner, project) == IF owner = <<"a">> THEN LicenseMIT ELSE LicenseApache

LookupKinds == {"ok", "no_license", "bad", "ConnectionError"}

LookupResponse(owner, project, kind) ==
    IF kind = "ok"
    THEN [exception |-> "none", status_code |-> 200,
          license |-> [name |-> RemoteLicense(owner, project)],
          download_url |-> <<"u", "/">> \o owner \o <<"/">> \o project,
          content |-> <<"b", "6", "4">>]
    ELSE IF kind = "no_license"
    THEN [exception |-> "none", status_code |-> 200, license |-> NoneObject,
          download_url |-> None, content |-> None]
    ELSE IF kind = "bad"
    THEN [exception |-> "none", status_code |-> 404, license |-> NoneObject,
          download_url |-> None, content |-> None]
    ELSE ConnectionError

\* the result of a method: the value returned or the exception raised, the entry
\* as the method left it, and the responses to the requests it issued ("none"
\* for a request not issued)
Outcome(ret, raised, entry, rate, lookup) ==
    [ret |-> ret, raised |-> raised, entry |-> entry, rate |-> rate, lookup |-> lookup]

\* GitHubRecognizer._init_entry
_init_entry(entry, now) ==
    [entry EXCEPT !.license_name = None,
                  !.license_url = None,
                  !.license_encoded = None,
                  !.license_recognized_at = _secs_to_time_string(now),
                  !.license_recognizer_name = <<"GitHubRecognizer">>]

\* GitHubRecognizer._fill_license_for_github: only ConnectionError is caught;
\* j['license']['name'] of a null license raises TypeError
_fill_license_for_github(owner, project, entry, lk, now) ==
    LET e0 == _init_entry(entry, now)
        resp == LookupResponse(owner, project, lk)
    IN
    IF resp.exception = "ConnectionError" THEN [raised |-> "none", entry |-> e0]
    ELSE IF ~_is_ok_response(resp) THEN [raised |-> "none", entry |-> e0]
    ELSE IF resp.license = NoneObject THEN [raised |-> "TypeError", entry |-> e0]
    ELSE [raised |-> "none",
          entry |-> [e0 EXCEPT !.license_name = resp.license.name,
                               !.license_url = resp.download_url,
                               !.license_encoded = resp.content]]

\* _can_call_github without the test of the remaining quota
_can_call_github_ignoring_quota(rl) ==
    IF RateLimitResponse(rl).exception = "ConnectionError"
    THEN [raised |-> "ConnectionError", ret |-> FALSE]
    ELSE [raised |-> "none", ret |-> TRUE]

\* GitHubRecognizer._can_call_github: requests.get is outside any try
_can_call_github(rl) ==
    LET resp == RateLimitResponse(rl) IN
    IF resp.exception = "ConnectionError" THEN [raised |-> "ConnectionError", ret |-> FALSE]
    ELSE IF _is_ok_response(resp) /\ resp.remaining = 0 THEN [raised |-> "none", ret |-> FALSE]
    ELSE [raised |-> "none", ret |-> TRUE]

_NUMBER_OF_URL_PATH_SEGMENTS_FOR_GITHUB_API == 3

\* any package of three segments taken for a GitHub package
GitHubApplicable_any_host(package) ==
    Len(Split(package, "/")) = _NUMBER_OF_URL_PATH_SEGMENTS_FOR_GITHUB_API

\* the package is github.com/<owner>/<project>
GitHubApplicable(package) ==
    LET path == Split(package, "/") IN
    ~(Len(path) # _NUMBER_OF_URL_PATH_SEGMENTS_FOR_GITHUB_API \/ path[1] # GitHubCom)

\* GitHubRecognizer.do_recognize; rl and lk choose the two responses
GitHubRecognizer_do_recognize(entry, rl, lk, now) ==
    LET path == Split(entry.package, "/") IN
    IF ~GitHubApplicable(entry.package)
    THEN Outcome(FALSE, "none", entry, "none", "none")
    ELSE LET can == _can_call_github(rl) IN
         IF can.raised # "none" THEN Outcome(FALSE, can.raised, entry, rl, "none")
         ELSE IF ~can.ret THEN Outcome(FALSE, "none", entry, rl, "none")
         ELSE LET fill == _fill_license_for_github(path[2], path[3], entry, lk, now) IN
              Outcome(TRUE, fill.raised, fill.entry, rl, lk)

\* CommonPrefixRecognizer.do_recognize
CommonPrefixRecognizer_do_recognize(rec, entry, now) ==
    IF StartsWith(entry.package, rec.prefix)
    THEN Outcome(TRUE, "none",
                 [entry EXCEPT !.license_name = rec.license_name,
                               !.license_url = rec.license_url,
                               !.license_encoded = None,
                               !.license_recognized_at = _secs_to_time_string(now),
                               !.license_recognizer_name =
                                   <<"CommonPrefixRecognizer", "(">> \o rec.prefix \o <<")">>],
                 "none", "none")
    ELSE Outcome(FALSE, "none", entry, "none", "none")

\* do_recognize handing the entry itself to the delegate
MappedToGitHubRecognizer_do_recognize_as_delegate(rec, entry, rl, lk, now) ==
    IF entry.package \in DOMAIN rec.mapping
    THEN GitHubRecognizer_do_recognize([entry EXCEPT !.package = rec.mapping[entry.package]],
                                       rl, lk, now)
    ELSE Outcome(FALSE, "none", entry, "none", "none")

\* MappedToGitHubRecognizer.do_recognize: the delegate works on a copy of the entry
MappedToGitHubRecognizer_do_recognize(rec, entry, rl, lk, now) ==
    IF entry.package \in DOMAIN rec.mapping
    THEN LET git_entry == [entry EXCEPT !.package = rec.mapping[entry.package]]
             r == GitHubRecognizer_do_recognize(git_entry, rl, lk, now)
         IN IF r.raised = "none" /\ r.ret
            THEN Outcome(TRUE, "none",
                         [entry EXCEPT !.license_name = r.entry.license_name,
                                       !.license_url = r.entry.license_url,
                                       !.license_encoded = r.entry.license_encoded,
                                       !.license_recognized_at = r.entry.license_recognized_at,
                                       !.license_recognizer_name = <<"MappedToGitHubRecognizer">>],
                         r.rate, r.lookup)
            ELSE Outcome(r.ret, r.raised, entry, r.rate, r.lookup)
    ELSE Outcome(FALSE, "none", entry, "none", "none")

\* dispatch of the abstract Recognizer.do_recognize
do_recognize(rec, entry, rl, lk, now) ==
    IF rec.type = "GitHubRecognizer" THEN GitHubRecognizer_do_recognize(entry, rl, lk, now)
    ELSE IF rec.type = "CommonPrefixRecognizer"
         THEN CommonPrefixRecognizer_do_recognize(rec, entry, now)
         ELSE MappedToGitHubRecognizer_do_recognize(rec, entry, rl, lk, now)

\* _set_from_cache without the test of cached_entry.license_name
_set_from_cache_any_entry(rec, res, entry) ==
    IF rec.cache THEN Cache_read(res, entry.package) ELSE NoneObject

\* _set_from_cache copying the three license fields only
_set_from_cache_license_only(rec, res, entry) ==
    IF rec.cache /\ entry.package \in DOMAIN res /\ res[entry.package].license_name # None
    THEN [entry EXCEPT !.license_name = res[entry.package].license_name,
                       !.license_url = res[entry.package].license_url,
                       !.license_encoded = res[entry.package].license_encoded]
    ELSE NoneObject

\* Recognizer._set_from_cache: the cached entry to copy, or None for a miss
_set_from_cache(rec, res, entry) ==
    IF rec.cache
    THEN LET cached_entry == Cache_read(res, entry.package) IN
         IF cached_entry # NoneObject
         THEN IF cached_entry.license_name # None THEN cached_entry ELSE NoneObject
         ELSE NoneObject
    ELSE NoneObject

\* Recognizer._save_to_cache
_save_to_cache(rec, res, entry) == IF rec.cache THEN Cache_write(res, entry) ELSE res

\* Recognizer.recognize: the outcome of the call and the cache it leaves
Recognizer_recognize(rec, res, entry, rl, lk, now) ==
    LET hit == _set_from_cache(rec, res, entry) IN
    IF hit # NoneObject
    THEN [out |-> Outcome(TRUE, "none", hit, "none", "none"),
          hit |-> TRUE, did |-> FALSE, resolved |-> res, wrote |-> FALSE]
    ELSE LET r == do_recognize(rec, entry, rl, lk, now) IN
         IF r.raised = "none" /\ r.ret
         THEN [out |-> r, hit |-> FALSE, did |-> TRUE,
               resolved |-> _save_to_cache(rec, res, r.entry), wrote |-> rec.cache]
         ELSE [out |-> r, hit |-> FALSE, did |-> TRUE, resolved |-> res, wrote |-> FALSE]

----------------------------------------------------------------------------
(* acceptors.py *)

\* str.replace(old, new) for a one-character old
RECURSIVE Replace(_, _, _)
Replace(s, old, new) ==
    IF s = <<>> THEN <<>>
    ELSE IF Head(s) = old THEN new \o Replace(Tail(s), old, new)
    ELSE <<Head(s)>> \o Replace(Tail(s), old, new)

\* the atoms of a regular expression made of characters, \-escapes, '.' and the
\* quantifiers '*' and '+'
RECURSIVE RegexAtoms(_)
RegexAtoms(re) ==
    IF re = <<>> THEN <<>>
    ELSE LET escaped == Head(re) = "\\" /\ Len(re) >= 2
             atom == IF escaped THEN [any |-> FALSE, ch |-> re[2]]
                     ELSE IF Head(re) = "." THEN [any |-> TRUE, ch |-> "."]
                     ELSE [any |-> FALSE, ch |-> Head(re)]
             rest == IF escaped THEN SubSeq(re, 3, Len(re)) ELSE Tail(re)
             quantified == rest # <<>> /\ Head(rest) \in {"*", "+"}
         IN <<[any |-> atom.any, ch |-> atom.ch,
               star |-> quantified /\ Head(rest) = "*",
               plus |-> quantified /\ Head(rest) = "+"]>>
            \o RegexAtoms(IF quantified THEN Tail(rest) ELSE rest)

\* re.compile raises re.error (nothing to repeat) for a quantifier that opens
\* the expression
RegexRaises(re) == re # <<>> /\ Head(re) \in {"*", "+"}

AtomMatches(atom, c) == atom.any \/ atom.ch = c

\* re.fullmatch of the atoms against the whole of s
RECURSIVE FullMatch(_, _)
FullMatch(atoms, s) ==
    IF atoms = <<>> THEN s = <<>>
    ELSE LET a == Head(atoms) IN
         IF a.star
         THEN \/ FullMatch(Tail(atoms), s)
              \/ s # <<>> /\ AtomMatches(a, Head(s)) /\ FullMatch(atoms, Tail(s))
         ELSE IF a.plus
         THEN /\ s # <<>>
              /\ AtomMatches(a, Head(s))
              /\ FullMatch(<<[a EXCEPT !.star = TRUE, !.plus = FALSE]>> \o Tail(atoms), Tail(s))
         ELSE s # <<>> /\ AtomMatches(a, Head(s)) /\ FullMatch(Tail(atoms), Tail(s))

\* the regular expression _pattern_matches makes of a pattern
PatternRegex(pattern) == Replace(Replace(pattern, ".", <<"\\", ".">>), "*", <<".", "*">>)

\* _pattern_matches raises what re.fullmatch raises
_pattern_matches_raises(package, pattern) ==
    Truthy(pattern) /\ package # pattern /\ RegexRaises(PatternRegex(pattern))

\* JsonFileLicenseAcceptor._pattern_matches, when it returns
_pattern_matches(package, pattern) ==
    IF ~Truthy(pattern) THEN TRUE
    ELSE IF package = pattern THEN TRUE
    ELSE FullMatch(RegexAtoms(PatternRegex(pattern)), package)

\* JsonFileLicenseAcceptor._entry_matches
_entry_matches(entry, allowed_license) ==
    IF entry.license_name # allowed_license.moduleLicense THEN FALSE
    ELSE IF ~_pattern_matches(entry.package, allowed_license.moduleName) THEN FALSE
    ELSE TRUE

\* JsonFileLicenseAcceptor._get_allowed_licenses_from_json and its lookup
\* _allowed_licenses.get(name): the rules of json_data['allowedLicenses'] for name
AllowedFor(allowedLicenses, name) ==
    SelectSeq(allowedLicenses, LAMBDA lic : lic.moduleLicense = name)

\* accept_or_reject leaving a license without a matching rule undecided
JsonFileLicenseAcceptor_accept_or_reject_unknown_unlisted(acceptor, entry) ==
    IF Truthy(entry.license_name)
       /\ \E i \in 1..Len(acceptor.allowedLicenses) :
              _entry_matches(entry, acceptor.allowedLicenses[i])
    THEN PyTrue
    ELSE PyNone

\* JsonFileLicenseAcceptor.accept_or_reject
JsonFileLicenseAcceptor_accept_or_reject(acceptor, entry) ==
    IF Truthy(entry.license_name)
    THEN LET allowed == AllowedFor(acceptor.allowedLicenses, entry.license_name) IN
         IF \E i \in 1..Len(allowed) : _entry_matches(entry, allowed[i])
         THEN PyTrue
         ELSE PyFalse
    ELSE PyNone

\* a LicenseAcceptor that decides from the package name alone, as the
\* _DummyAcceptor of the tests does: acceptable for t..., not acceptable for
\* f..., no decision otherwise; the decision is the value accept_or_reject
\* returns
_DummyAcceptor_accept_or_reject(entry) ==
    IF entry.package # <<>> /\ entry.package[1] = "t" THEN PyTrue
    ELSE IF entry.package # <<>> /\ entry.package[1] = "f" THEN PyFalse
    ELSE PyNone

\* dispatch of the abstract LicenseAcceptor.accept_or_reject
accept_or_reject(acceptor, entry) ==
    IF acceptor.type = "JsonFileLicenseAcceptor"
    THEN JsonFileLicenseAcceptor_accept_or_reject(acceptor, entry)
    ELSE _DummyAcceptor_accept_or_reject(entry)

\* the loop of _try_all_acceptors returning on True only
RECURSIVE try_loop_until_true(_, _, _)
try_loop_until_true(entry, accs, i) ==
    IF i > Len(accs) THEN [result |-> PyFalse, consulted |-> <<>>, decided |-> FALSE]
    ELSE IF accept_or_reject(accs[i], entry) = PyTrue
         THEN [result |-> PyTrue, consulted |-> <<i>>, decided |-> TRUE]
         ELSE [result |-> try_loop_until_true(entry, accs, i + 1).result,
               consulted |-> <<i>> \o try_loop_until_true(entry, accs, i + 1).consulted,
               decided |-> try_loop_until_true(entry, accs, i + 1).decided]

\* _try_all_acceptors from position i on: the result and the acceptors consulted
RECURSIVE try_loop(_, _, _)
try_loop(entry, accs, i) ==
    IF i > Len(accs) THEN [result |-> PyFalse, consulted |-> <<>>, decided |-> FALSE]
    ELSE LET result == accept_or_reject(accs[i], entry) IN
         IF result # PyNone
         THEN [result |-> result, consulted |-> <<i>>, decided |-> TRUE]
         ELSE LET r == try_loop(entry, accs, i + 1) IN
              [result |-> r.result, consulted |-> <<i>> \o r.consulted, decided |-> r.decided]

_try_all_acceptors(entry, accs) ==
    IF accs # NoneObject THEN try_loop(entry, accs.items, 1)
    ELSE [result |-> PyFalse, consulted |-> <<>>, decided |-> FALSE]

\* accept_all appending only the entries an acceptor rejected
accept_all_rejected_only(ents, accs) ==
    SelectSeq([i \in 1..Len(ents) |-> i],
              LAMBDA i : _try_all_acceptors(ents[i], accs).decided
                         /\ _try_all_acceptors(ents[i], accs).result = PyFalse)

\* accept_all: the indices of the entries appended to unaccepted, in order
accept_all(ents, accs) ==
    SelectSeq([i \in 1..Len(ents) |-> i],
              LAMBDA i : ~(_try_all_acceptors(ents[i], accs).result = PyTrue))

----------------------------------------------------------------------------
(* reporters.py *)

\* the attribute is set on the object: the seven fields of the dataclass always
\* are, any other only after something assigned it
HasAttr(entry, name) == name \in DOMAIN entry

Other == <<"Other">>
Unacceptable == <<"** Unacceptable **">>

\* Reporter._increment_counter
_increment_counter(summary, lic) ==
    IF lic \in DOMAIN summary THEN [summary EXCEPT ![lic] = @ + 1]
    ELSE [x \in DOMAIN summary \cup {lic} |-> IF x = lic THEN 1 ELSE summary[x]]

\* the loop of generate_summary from entry i on; reading entry.acceptable of an
\* entry that has no such attribute raises AttributeError
RECURSIVE generate_summary_loop(_, _, _)
generate_summary_loop(ents, i, summary) ==
    IF i > Len(ents) THEN [raised |-> "none", summary |-> summary]
    ELSE IF ~HasAttr(ents[i], "acceptable")
    THEN [raised |-> "AttributeError", summary |-> summary]
    ELSE LET name == IF ents[i].acceptable # PyTrue THEN Unacceptable
                     ELSE IF ents[i].license_name # None THEN ents[i].license_name
                     ELSE Other
         IN generate_summary_loop(ents, i + 1, _increment_counter(summary, name))

\* Reporter.generate_summary
generate_summary(ents) == generate_summary_loop(ents, 1, [x \in {} |-> 0])

\* JsonReporter._generate_licenses
_generate_licenses(ents) ==
    [i \in 1..Len(ents) |->
        [package |-> ents[i].package,
         license_name |-> ents[i].license_name,
         license_url |-> ents[i].license_url,
         acceptable |-> ents[i].acceptable]]

\* what generate_report leaves: the exception raised, the entries, the cache and
\* the document written (None if none was)
ReportOutcome(raised, ents, res, ord, changed, document) ==
    [raised |-> raised, entries |-> ents, resolved |-> res, order |-> ord,
     has_changed |-> changed, document |-> document]

\* JsonReporter.generate_report
JsonReporter_generate_report(ents, res, ord, changed) ==
    LET summary == generate_summary(ents) IN
    IF summary.raised # "none"
    THEN ReportOutcome(summary.raised, ents, res, ord, changed, NoneObject)
    ELSE ReportOutcome("none", ents, res, ord, changed,
                  [summary |-> summary.summary, licenses |-> _generate_licenses(ents)])

\* what requests.get(url) can give for the URL of a license text
UrlKinds == {"text", "html", "bad", "ConnectionError"}

UrlText(url) == <<"text of ">> \o url

\* PdfReporter._b64encode: the text as one encoded piece after the other
_b64encode(txt) == <<"b64(">> \o txt \o <<")">>

\* PdfReporter._read_text_from_url: with a cache, a text/plain answer is encoded
\* into the entry and the entry is written to the cache
_read_text_from_url(rep, url, entry, kind, res, ord, changed) ==
    IF kind = "text" /\ rep.cache
    THEN LET e == [entry EXCEPT !.license_encoded = _b64encode(UrlText(url))] IN
         [entry |-> e, resolved |-> Cache_write(res, e),
          order |-> Cache_write_order(ord, e), has_changed |-> TRUE]
    ELSE [entry |-> entry, resolved |-> res, order |-> ord, has_changed |-> changed]

\* PdfReporter._create_license_page: the text comes from license_encoded, else
\* from license_url, else it is an error message
_create_license_page(rep, entry, kind, res, ord, changed) ==
    IF entry.license_encoded # None
    THEN [entry |-> entry, resolved |-> res, order |-> ord, has_changed |-> changed]
    ELSE IF entry.license_url # None
    THEN _read_text_from_url(rep, entry.license_url, entry, kind, res, ord, changed)
    ELSE [entry |-> entry, resolved |-> res, order |-> ord, has_changed |-> changed]

\* the loop of PdfReporter.generate_report over the entries from position i on;
\* kinds[i] is the answer to the request made for entry i, if one is made
RECURSIVE license_pages_loop(_, _, _, _, _, _, _)
license_pages_loop(rep, ents, i, kinds, res, ord, changed) ==
    IF i > Len(ents) THEN ReportOutcome("none", ents, res, ord, changed, <<"pdf">>)
    ELSE LET page == _create_license_page(rep, ents[i], kinds[i], res, ord, changed) IN
         license_pages_loop(rep, [ents EXCEPT ![i] = page.entry], i + 1, kinds,
                            page.resolved, page.order, page.has_changed)

\* PdfReporter.generate_report: the summary page, then one page per entry
PdfReporter_generate_report(rep, ents, kinds, res, ord, changed) ==
    IF generate_summary(ents).raised # "none"
    THEN ReportOutcome(generate_summary(ents).raised, ents, res, ord, changed, NoneObject)
    ELSE license_pages_loop(rep, ents, 1, kinds, res, ord, changed)

\* dispatch of the abstract Reporter.generate_report
generate_report(rep, ents, kinds, res, ord, changed) ==
    IF rep.type = "JsonReporter" THEN JsonReporter_generate_report(ents, res, ord, changed)
    ELSE PdfReporter_generate_report(rep, ents, kinds, res, ord, changed)

----------------------------------------------------------------------------
(* bounds *)

MaxScanners == 2     \* scanners in the list given to scan_all
MaxOut == 2          \* packages a scanner reports
MaxClock == 20       \* seconds the clock can reach
MaxRuns == 2         \* calls of recognize_all on the same entries
MaxAccepts == 2      \* calls of accept_all on the same entries
MaxOps == 4          \* write, update_cache_file and constructor calls on the cache file
MaxThreads == 2      \* threads that call do_recognize at the same time
MaxQuota == 2        \* lookups the GitHub API still allows when the threads start
MaxLines == 3        \* lines go list prints
MaxPatternLen == 3   \* characters of a package pattern and of the package it is tried on

----------------------------------------------------------------------------
(* the arguments of the model *)

ScannerName(i) == <<"S">> \o Decimal(i)

ScanPackages == {PkgGitHub, PkgPrefixed, PkgMapped}

Outs == UNION {[1..n -> ScanPackages] : n \in 0..MaxOut}

Scanner(i, handles, out) == [name |-> ScannerName(i), handles |-> handles, out |-> out]

\* the list of n scanners that answer can_handle as h says and find what o says;
\* scanner i has its own class name
ScannerList(n, h, o) == [i \in 1..n |-> Scanner(i, h[i], o[i])]

\* the scanner lists of the pipeline runs
PipelineScanners ==
    {<<>>,
     <<Scanner(1, FALSE, <<PkgGitHub>>)>>,
     <<Scanner(1, TRUE, <<PkgGitHub, PkgPrefixed>>), Scanner(2, TRUE, <<PkgMapped, PkgGitHub>>)>>,
     <<Scanner(1, FALSE, <<PkgPrefixed>>), Scanner(2, TRUE, <<PkgOther, PkgGitHubShort>>)>>,
     <<Scanner(1, TRUE, <<PkgMapped, PkgPrefixed>>)>>,
     <<Scanner(1, TRUE, <<PkgThree, PkgGitHub>>)>>}

\* the scanner lists of the runs that call recognize_all repeatedly
TwiceScanners ==
    {<<Scanner(1, TRUE, <<PkgGitHub>>)>>,
     <<Scanner(1, TRUE, <<PkgMapped>>)>>,
     <<Scanner(1, TRUE, <<PkgPrefixed, PkgOther>>)>>,
     <<Scanner(1, TRUE, <<PkgPrefixed>>), Scanner(2, TRUE, <<PkgGitHub>>)>>,
     <<Scanner(1, FALSE, <<>>), Scanner(2, TRUE, <<PkgGitHubShort>>)>>}

GitHubRecognizer(cache) ==
    [type |-> "GitHubRecognizer", cache |-> cache]

MappedToGitHubRecognizer(mapping, cache) ==
    [type |-> "MappedToGitHubRecognizer", cache |-> cache, mapping |-> mapping]

CommonPrefixRecognizer(prefix, license_name, license_url, cache) ==
    [type |-> "CommonPrefixRecognizer", cache |-> cache, prefix |-> prefix,
     license_name |-> license_name, license_url |-> license_url]

Mapping == [p \in {PkgMapped} |-> PkgMappedTarget]

PrefixT == CommonPrefixRecognizer(<<"t">>, <<"T", "1">>, <<"u", "1">>, TRUE)
PrefixTSlash == CommonPrefixRecognizer(<<"t", "/">>, <<"T", "2">>, <<"u", "2">>, TRUE)
PrefixG == CommonPrefixRecognizer(<<"g">>, <<"G">>, <<"u", "g">>, TRUE)

\* the recognizer lists of the runs that call accept_all repeatedly
AcceptRecognizers == {<<>>, <<PrefixT, PrefixTSlash>>, <<PrefixTSlash, PrefixT>>}

RecognizerLists ==
    {<<>>,
     <<GitHubRecognizer(TRUE), MappedToGitHubRecognizer(Mapping, TRUE), PrefixTSlash>>,
     <<PrefixT, PrefixTSlash>>,
     <<PrefixTSlash, PrefixT>>,
     <<GitHubRecognizer(TRUE), PrefixG>>,
     <<MappedToGitHubRecognizer(Mapping, FALSE), GitHubRecognizer(FALSE)>>}

CachedEntry(package, license_name, scanner_name) ==
    [package |-> package,
     license_name |-> license_name,
     license_url |-> IF license_name = None THEN None ELSE <<"u", "0">>,
     license_encoded |-> None,
     license_recognized_at |-> _secs_to_time_string(0),
     dependancy_scanner_name |-> scanner_name,
     license_recognizer_name |-> <<"GitHubRecognizer">>]

\* _read_cache_from_file: what the cache file can hold when the run starts
CacheFiles ==
    {EmptyDict,
     DictSet(EmptyDict, PkgGitHub, asdict(CachedEntry(PkgGitHub, LicenseMIT, ScannerName(1)))),
     DictSet(DictSet(DictSet(EmptyDict,
         PkgGitHub, asdict(CachedEntry(PkgGitHub, None, ScannerName(1)))),
         PkgPrefixed, asdict(CachedEntry(PkgPrefixed, <<>>, ScannerName(1)))),
         PkgMapped, asdict(CachedEntry(PkgMapped, LicenseApache, ScannerName(9))))}

\* the file an earlier run left when it flushed a cache holding res
CacheFileOf(res) ==
    IF res = EmptyDict THEN NoneObject
    ELSE LET sorted == SortedByPackage(DictValues(res)) IN
         update_cache_file(res, [i \in 1..Len(sorted) |-> sorted[i].package],
                           TRUE, NoneObject).file

PipelineFiles == {CacheFileOf(res) : res \in CacheFiles}

\* an entry a caller hands to JsonFileLicenseCache.write
ApiEntry(package, license_name, license_url) ==
    [LicenseReportEntry(package, None) EXCEPT
        !.license_name = license_name, !.license_url = license_url]

ApiEntries ==
    {ApiEntry(PkgMapped, LicenseMIT, <<"u">>),
     ApiEntry(PkgMapped, LicenseApache, None),
     ApiEntry(PkgOther, None, None),
     ApiEntry(PkgGitHub, JsonNull, <<"\"", "\\">>),
     ApiEntry(None, LicenseMIT, None)}

\* the packages a caller reads
ApiPackages == {PkgMapped, PkgOther, PkgGitHub, PkgPrefixed, None}

JsonFileLicenseAcceptor(allowedLicenses) ==
    [type |-> "JsonFileLicenseAcceptor", allowedLicenses |-> allowedLicenses]

_DummyAcceptor == [type |-> "_DummyAcceptor"]

AllowMIT == JsonFileLicenseAcceptor(<<[moduleLicense |-> LicenseMIT, moduleName |-> None]>>)

AllowSome ==
    JsonFileLicenseAcceptor(<<[moduleLicense |-> <<"T", "1">>, moduleName |-> <<"t", "/", "*">>],
                              [moduleLicense |-> LicenseApache, moduleName |-> None]>>)

\* a line of go list -m -f "{{.Path}} {{.Main}} {{.Indirect}}" all
GoLine(path, main, indirect) == path \o <<" ">> \o main \o <<" ">> \o indirect \o <<"\n">>

\* the module paths printed: a path, the main module, no path, a path with a blank
GoPaths == {<<"a">>, <<"m">>, <<>>, <<"d", " ", "x">>}

\* the lines go list can print, and lines of other shapes
GoLines ==
    {GoLine(path, main, StrFalse) : path \in GoPaths, main \in {StrTrue, StrFalse}}
    \cup {GoLine(<<"a">>, StrFalse, StrTrue),
          <<"\n">>,
          <<"b", "\t">> \o StrFalse \o <<" ", " ">> \o StrTrue}

\* every str of at most n characters of the alphabet
Strings(alphabet, n) == UNION {[1..k -> alphabet] : k \in 0..n}

\* the patterns tried: a '+' that follows '*' or '+' is left out, as Python
\* versions differ on it (an error before 3.11, a possessive quantifier since)
PortablePattern(p) == \A i \in 2..Len(p) : p[i] = "+" => p[i - 1] \notin {"*", "+"}

PatternArgs ==
    {None} \cup {p \in Strings({"a", ".", "*", "+"}, MaxPatternLen) : PortablePattern(p)}

PackageArgs == Strings({"a", ".", "x"}, MaxPatternLen)

AcceptorArgs ==
    {NoneObject,
     ListOf(<<>>),
     ListOf(<<AllowMIT>>),
     ListOf(<<_DummyAcceptor, AllowMIT>>),
     ListOf(<<AllowSome, _DummyAcceptor>>)}

ReporterArgs == {NoneObject, ListOf(<<>>), ListOf(<<"JsonReporter">>)}

JsonReporter == [type |-> "JsonReporter"]

\* PdfReporter(filename, cache): cache tells whether a cache was given
PdfReporter(cache) == [type |-> "PdfReporter", cache |-> cache]

\* the reporter lists handed to report_all directly
ReporterLists ==
    {<<>>,
     <<JsonReporter>>,
     <<PdfReporter(TRUE)>>,
     <<PdfReporter(FALSE)>>,
     <<JsonReporter, PdfReporter(TRUE)>>,
     <<PdfReporter(TRUE), JsonReporter>>,
     <<PdfReporter(TRUE), PdfReporter(TRUE)>>}

\* an entry on which something assigned the attribute acceptable, as an acceptor
\* written against the abstract LicenseAcceptor can
WithAcceptable(entry, acceptable) ==
    [f \in Fields \cup {"acceptable"} |->
        IF f = "acceptable" THEN acceptable ELSE entry[f]]

\* the entries handed to report_all directly: as the dataclass constructs them,
\* and with acceptable assigned; with a license text, with a URL only, with neither
ReportEntries ==
    {ApiEntry(PkgMapped, LicenseMIT, <<"u">>),
     WithAcceptable(ApiEntry(PkgMapped, LicenseMIT, <<"u">>), PyTrue),
     WithAcceptable(ApiEntry(PkgOther, None, None), PyFalse),
     WithAcceptable([ApiEntry(PkgGitHub, LicenseMIT, <<"u", "0">>) EXCEPT
                        !.license_encoded = <<"b", "6", "4">>], PyTrue),
     WithAcceptable(ApiEntry(PkgPrefixed, LicenseApache, <<"u", "2">>), PyNone)}

ReportEntryLists == UNION {[1..n -> ReportEntries] : n \in 0..2}

----------------------------------------------------------------------------
(* scanner.py: scan(), one action per stage call and per step of the loops *)

NoError == [exc |-> "none", stage |-> "none"]

NoOp == [op |-> "none"]

\* JsonFileLicenseCache.__init__: _resolved is read from one of the files
InitCache(files) ==
    /\ file \in files
    /\ resolved = _read_cache_from_file(file).resolved
    /\ order = _read_cache_from_file(file).order

\* nothing has run yet: the counters and the histories of a fresh process
InitHistory ==
    /\ error = NoError
    /\ trace = <<>>
    /\ unaccepted = <<>>
    /\ has_changed = FALSE
    /\ resolved0 = resolved
    /\ ei = 1
    /\ ri = 1
    /\ clock = 1
    /\ calls = <<>>
    /\ zero_seen = FALSE
    /\ first_run = <<>>
    /\ runs = 0
    /\ accept_calls = <<>>
    /\ accept_runs = 0
    /\ first_accept = <<>>
    /\ ops = 0
    /\ last_op = NoOp
    /\ last_read = NoOp
    /\ written = EmptyDict

InitRun ==
    /\ pc = "scan_all"
    /\ entries = <<>>
    /\ InitHistory

\* report_all has not been called
NoReport ==
    /\ rp = 1
    /\ report_calls = <<>>

\* no function is applied on its own
NoCall ==
    /\ args = NoOp
    /\ applied = NoOp

\* no thread calls do_recognize
NoThreads ==
    /\ quota = 0
    /\ workers = <<>>
    /\ lookups = <<>>

\* scan(directory, dependancy_scanners, license_recognizers, license_acceptors,
\* license_reporters) with a JsonFileLicenseCache constructed from a file
Init ==
    /\ scanners \in PipelineScanners
    /\ recognizers \in RecognizerLists
    /\ acceptors \in AcceptorArgs
    /\ reporters \in ReporterArgs
    /\ InitCache(PipelineFiles)
    /\ InitRun
    /\ NoReport
    /\ NoCall
    /\ NoThreads

\* scan_all(directory, scanners) alone, for every list of at most MaxScanners
\* scanners
InitScan ==
    /\ \E n \in 0..MaxScanners :
       \E h \in [1..n -> BOOLEAN], o \in [1..n -> Outs] :
          scanners = ScannerList(n, h, o)
    /\ recognizers = <<>>
    /\ acceptors = NoneObject
    /\ reporters = NoneObject
    /\ InitCache({NoneObject})
    /\ InitRun
    /\ NoReport
    /\ NoCall
    /\ NoThreads

\* entries = scan_all(directory, dependancy_scanners)
ScanAll ==
    /\ pc = "scan_all"
    /\ trace' = Append(trace, "scan_all")
    /\ LET r == scan_all(scanners) IN
       IF r.raised
       THEN /\ pc' = "aborted"
            /\ error' = [exc |-> "RuntimeError", stage |-> "scan_all"]
            /\ UNCHANGED <<entries, runs>>
       ELSE /\ pc' = "recognize_all"
            /\ entries' = r.value
            /\ runs' = 1
            /\ UNCHANGED error
    /\ UNCHANGED <<config_vars, cache_vars, accept_vars, order, api_vars>>
    /\ UNCHANGED <<ei, ri, clock, calls, zero_seen, first_run>>
    /\ UNCHANGED unit_vars

\* _recognize_entry without the return after a successful recognize
_recognize_entry_next_without_return(ret, e, r) == [ei |-> e, ri |-> r + 1]

\* _recognize_entry: where the loops stand after recognize returned ret
_recognize_entry_next(ret, e, r) ==
    IF ret THEN [ei |-> e + 1, ri |-> 1] ELSE [ei |-> e, ri |-> r + 1]

\* one pass of the loop of _recognize_entry: recognizer.recognize(entry)
Recognize ==
    /\ pc = "recognize_all"
    /\ ei <= Len(entries)
    /\ ri <= Len(recognizers)
    /\ clock < MaxClock
    /\ clock' = clock + 1
    /\ \E rl \in RateLimitKinds, lk \in LookupKinds :
       \E r \in {Recognizer_recognize(recognizers[ri], resolved, entries[ei], rl, lk, clock)} :
       \E next \in {_recognize_entry_next(r.out.ret, ei, ri)} :
          /\ entries' = [entries EXCEPT ![ei] = r.out.entry]
          /\ resolved' = r.resolved
          /\ order' = IF r.wrote THEN Cache_write_order(order, r.out.entry) ELSE order
          /\ has_changed' = (has_changed \/ r.wrote)
          /\ zero_seen' = (zero_seen \/ r.out.rate = "zero")
          /\ calls' = Append(calls,
                 [run |-> runs, entry |-> ei, recognizer |-> ri,
                  cached |-> Cache_read(resolved, entries[ei].package),
                  before |-> entries[ei], after |-> r.out.entry,
                  hit |-> r.hit, did |-> r.did, ret |-> r.out.ret,
                  raised |-> r.out.raised, rate |-> r.out.rate,
                  lookup |-> r.out.lookup, wrote |-> r.wrote,
                  after_zero |-> zero_seen])
          /\ IF r.out.raised # "none"
             THEN /\ pc' = "aborted"
                  /\ error' = [exc |-> r.out.raised, stage |-> "recognize_all"]
                  /\ UNCHANGED <<ei, ri>>
             ELSE /\ ei' = next.ei
                  /\ ri' = next.ri
                  /\ UNCHANGED <<pc, error>>
    /\ UNCHANGED <<trace, config_vars, resolved0, first_run, runs, accept_vars, api_vars>>
    /\ UNCHANGED unit_vars

\* _recognize_entry: no recognizer is left, the warning is logged
CouldNotRecognize ==
    /\ pc = "recognize_all"
    /\ ei <= Len(entries)
    /\ ri > Len(recognizers)
    /\ ei' = ei + 1
    /\ ri' = 1
    /\ UNCHANGED <<pc, error, trace, config_vars, entries, cache_vars, accept_vars>>
    /\ UNCHANGED <<clock, calls, zero_seen, first_run, runs, order, api_vars>>
    /\ UNCHANGED unit_vars

\* recognize_all returns once every entry has been through _recognize_entry
RecognizeAllReturn ==
    /\ pc = "recognize_all"
    /\ ei > Len(entries)
    /\ pc' = "accept_all"
    /\ trace' = Append(trace, "recognize_all")
    /\ first_run' = IF runs = 1 THEN entries ELSE first_run
    /\ UNCHANGED <<error, config_vars, entries, cache_vars, accept_vars>>
    /\ UNCHANGED <<ei, ri, clock, calls, zero_seen, runs, order, api_vars>>
    /\ UNCHANGED unit_vars

\* scan_all, then recognize_all called repeatedly on the entries it returned
InitTwice ==
    /\ scanners \in TwiceScanners
    /\ recognizers \in RecognizerLists
    /\ acceptors = NoneObject
    /\ reporters = NoneObject
    /\ InitCache(PipelineFiles)
    /\ InitRun
    /\ NoReport
    /\ NoCall
    /\ NoThreads

\* a caller of recognize_all that calls it again on the same entries
RecognizeAgain ==
    /\ pc = "accept_all"
    /\ runs < MaxRuns
    /\ runs' = runs + 1
    /\ pc' = "recognize_all"
    /\ ei' = 1
    /\ ri' = 1
    /\ UNCHANGED <<error, trace, config_vars, entries, cache_vars, accept_vars>>
    /\ UNCHANGED <<clock, calls, zero_seen, first_run, order, api_vars>>
    /\ UNCHANGED unit_vars

\* unaccepted_entries = accept_all(entries, license_acceptors)
AcceptAll ==
    /\ pc = "accept_all"
    /\ pc' = "report_all"
    /\ trace' = Append(trace, "accept_all")
    /\ unaccepted' = accept_all(entries, acceptors)
    /\ accept_calls' = [i \in 1..Len(entries) |-> _try_all_acceptors(entries[i], acceptors)]
    /\ accept_runs' = accept_runs + 1
    /\ first_accept' = accept_calls'
    /\ UNCHANGED <<error, config_vars, entries, cache_vars, recognize_vars, order, api_vars>>
    /\ UNCHANGED unit_vars

\* scan_all and recognize_all, then accept_all called repeatedly on the entries
InitAccept ==
    /\ scanners \in PipelineScanners
    /\ recognizers \in AcceptRecognizers
    /\ acceptors \in AcceptorArgs
    /\ reporters = NoneObject
    /\ InitCache(PipelineFiles)
    /\ InitRun
    /\ NoReport
    /\ NoCall
    /\ NoThreads

\* a caller of accept_all that calls it again on the same entries
AcceptAgain ==
    /\ pc = "report_all"
    /\ accept_runs < MaxAccepts
    /\ accept_runs' = accept_runs + 1
    /\ unaccepted' = accept_all(entries, acceptors)
    /\ accept_calls' = [i \in 1..Len(entries) |-> _try_all_acceptors(entries[i], acceptors)]
    /\ UNCHANGED <<pc, error, trace, config_vars, entries, cache_vars, recognize_vars>>
    /\ UNCHANGED <<first_accept, order, api_vars>>
    /\ UNCHANGED unit_vars

\* if license_reporters is not None: report_all(entries, unaccepted_entries,
\* license_reporters); report_all(entries, reporters) takes two arguments
ReportAll ==
    /\ pc = "report_all"
    /\ IF reporters # NoneObject
       THEN /\ pc' = "aborted"
            /\ error' = [exc |-> "TypeError", stage |-> "report_all"]
            /\ trace' = Append(trace, "report_all")
       ELSE /\ pc' = "returned"
            /\ UNCHANGED <<error, trace>>
    /\ UNCHANGED <<config_vars, entries, cache_vars, recognize_vars, accept_vars>>
    /\ UNCHANGED <<order, api_vars>>
    /\ UNCHANGED unit_vars

Next ==
    \/ ScanAll
    \/ Recognize
    \/ CouldNotRecognize
    \/ RecognizeAllReturn
    \/ AcceptAll
    \/ ReportAll

Spec == Init /\ [][Next]_vars

NextScan == ScanAll

SpecScan == InitScan /\ [][NextScan]_vars

NextTwice ==
    \/ ScanAll
    \/ Recognize
    \/ CouldNotRecognize
    \/ RecognizeAllReturn
    \/ RecognizeAgain

SpecTwice == InitTwice /\ [][NextTwice]_vars

\* calls on a JsonFileLicenseCache constructed from a file
InitCacheApi ==
    /\ scanners = <<>>
    /\ recognizers = <<>>
    /\ acceptors = NoneObject
    /\ reporters = NoneObject
    /\ InitCache(PipelineFiles)
    /\ InitRun
    /\ NoReport
    /\ NoCall
    /\ NoThreads

scan_vars == <<pc, error, trace, config_vars, entries, recognize_vars, accept_vars>>

\* cache.write(entry)
CacheWrite ==
    /\ ops < MaxOps
    /\ \E entry \in ApiEntries :
          /\ resolved' = Cache_write(resolved, entry)
          /\ order' = Cache_write_order(order, entry)
          /\ has_changed' = TRUE
          /\ written' = DictSet(written, entry.package, entry)
          /\ last_op' = [op |-> "write", entry |-> entry, raised |-> "none",
                         resolved |-> resolved, has_changed |-> has_changed, file |-> file]
    /\ ops' = ops + 1
    /\ last_read' = NoOp
    /\ UNCHANGED <<scan_vars, resolved0, file>>
    /\ UNCHANGED unit_vars

\* cache.read(package)
CacheRead ==
    /\ \E package \in ApiPackages :
          last_read' = [op |-> "read", package |-> package,
                        ret |-> Cache_read(resolved, package)]
    /\ UNCHANGED <<scan_vars, cache_vars, order, file, ops, last_op, written>>
    /\ UNCHANGED unit_vars

\* cache.update_cache_file()
CacheFlush ==
    /\ ops < MaxOps
    /\ \E r \in {update_cache_file(resolved, order, has_changed, file)} :
          /\ file' = r.file
          /\ last_op' = [op |-> "update_cache_file", ret |-> r.ret, raised |-> r.raised,
                         wrote |-> r.wrote, has_changed |-> has_changed, file |-> file,
                         written |-> written,
                         after_flush |-> last_op.op = "update_cache_file" /\ last_op.wrote]
    /\ ops' = ops + 1
    /\ last_read' = NoOp
    /\ UNCHANGED <<scan_vars, cache_vars, order, written>>
    /\ UNCHANGED unit_vars

\* a fresh JsonFileLicenseCache(filename) constructed from the same file
CacheReopen ==
    /\ ops < MaxOps
    /\ resolved' = _read_cache_from_file(file).resolved
    /\ order' = _read_cache_from_file(file).order
    /\ has_changed' = FALSE
    /\ resolved0' = resolved'
    /\ written' = EmptyDict
    /\ last_op' = [op |-> "__init__", after |-> last_op, loaded |-> resolved0]
    /\ ops' = ops + 1
    /\ last_read' = NoOp
    /\ UNCHANGED <<scan_vars, file>>
    /\ UNCHANGED unit_vars

NextCache ==
    \/ CacheWrite
    \/ CacheRead
    \/ CacheFlush
    \/ CacheReopen

SpecCache == InitCacheApi /\ [][NextCache]_vars

\* report_all(entries, reporters) called with the two arguments it takes
InitReport ==
    /\ pc = "report_all"
    /\ entries \in ReportEntryLists
    /\ scanners = <<>>
    /\ recognizers = <<>>
    /\ acceptors = NoneObject
    /\ reporters \in {ListOf(l) : l \in ReporterLists}
    /\ InitCache(PipelineFiles)
    /\ InitHistory
    /\ NoReport
    /\ NoCall
    /\ NoThreads

\* one pass of the loop of report_all: reporter.generate_report(entries)
GenerateReport ==
    /\ pc = "report_all"
    /\ rp <= Len(reporters.items)
    /\ \E kinds \in [1..Len(entries) -> UrlKinds] :
       \E r \in {generate_report(reporters.items[rp], entries, kinds,
                                  resolved, order, has_changed)} :
          /\ entries' = r.entries
          /\ resolved' = r.resolved
          /\ order' = r.order
          /\ has_changed' = r.has_changed
          /\ report_calls' = Append(report_calls,
                 [reporter |-> rp, raised |-> r.raised, document |-> r.document,
                  entries |-> entries, resolved |-> resolved, has_changed |-> has_changed])
          /\ IF r.raised # "none"
             THEN /\ pc' = "aborted"
                  /\ error' = [exc |-> r.raised, stage |-> "report_all"]
                  /\ UNCHANGED rp
             ELSE /\ rp' = rp + 1
                  /\ UNCHANGED <<pc, error>>
    /\ UNCHANGED <<trace, config_vars, resolved0, recognize_vars, accept_vars, api_vars>>
    /\ UNCHANGED <<call_vars, thread_vars>>

\* report_all returns once every reporter has generated its report
ReportAllReturn ==
    /\ pc = "report_all"
    /\ rp > Len(reporters.items)
    /\ pc' = "returned"
    /\ trace' = Append(trace, "report_all")
    /\ UNCHANGED <<error, config_vars, entries, cache_vars, recognize_vars, accept_vars>>
    /\ UNCHANGED <<order, api_vars, unit_vars>>

NextReport ==
    \/ GenerateReport
    \/ ReportAllReturn

SpecReport == InitReport /\ [][NextReport]_vars

\* _pattern_matches(package, pattern) called on its own
InitPattern ==
    /\ args \in [package : PackageArgs, pattern : PatternArgs]
    /\ applied = NoOp
    /\ scanners = <<>>
    /\ recognizers = <<>>
    /\ acceptors = NoneObject
    /\ reporters = NoneObject
    /\ InitCache({NoneObject})
    /\ InitRun
    /\ NoReport
    /\ NoThreads

\* the call returns or raises
ApplyPattern ==
    /\ applied = NoOp
    /\ "pattern" \in DOMAIN args
    /\ applied' = IF _pattern_matches_raises(args.package, args.pattern)
                  THEN [op |-> "_pattern_matches", raised |-> "re.error", ret |-> PyNone]
                  ELSE [op |-> "_pattern_matches", raised |-> "none",
                        ret |-> IF _pattern_matches(args.package, args.pattern)
                                THEN PyTrue ELSE PyFalse]
    /\ UNCHANGED <<pc, error, trace, config_vars, entries, cache_vars, recognize_vars>>
    /\ UNCHANGED <<accept_vars, order, api_vars, report_vars, args, thread_vars>>

NextPattern == ApplyPattern

SpecPattern == InitPattern /\ [][NextPattern]_vars

\* GoModuleDependancyScanner.scan(directory) called on its own
InitGoScan ==
    /\ \E n \in 0..MaxLines : args \in [lines : [1..n -> GoLines]]
    /\ applied = NoOp
    /\ scanners = <<>>
    /\ recognizers = <<>>
    /\ acceptors = NoneObject
    /\ reporters = NoneObject
    /\ InitCache({NoneObject})
    /\ InitRun
    /\ NoReport
    /\ NoThreads

\* the call returns the list of entries
ApplyGoScan ==
    /\ applied = NoOp
    /\ "lines" \in DOMAIN args
    /\ applied' = [op |-> "scan", raised |-> "none",
                   ret |-> GoModuleDependancyScanner_scan(args.lines)]
    /\ UNCHANGED <<pc, error, trace, config_vars, entries, cache_vars, recognize_vars>>
    /\ UNCHANGED <<accept_vars, order, api_vars, report_vars, args, thread_vars>>

NextGoScan == ApplyGoScan

SpecGoScan == InitGoScan /\ [][NextGoScan]_vars

\* the packages the threads recognize
ThreadPackages == {PkgGitHub, PkgMappedTarget, PkgGitHubShort}

\* GitHubRecognizer.do_recognize called by several threads, each on an entry of
\* its own, against the quota of one GitHub API
InitThreads ==
    /\ pc = "threads"
    /\ \E n \in 1..MaxThreads : \E pkgs \in [1..n -> ThreadPackages] :
          /\ entries = [t \in 1..n |-> LicenseReportEntry(pkgs[t], ScannerName(1))]
          /\ workers = [t \in 1..n |-> [pc |-> "do_recognize", rate |-> "none"]]
    /\ quota \in 0..MaxQuota
    /\ lookups = <<>>
    /\ scanners = <<>>
    /\ recognizers = <<GitHubRecognizer(FALSE)>>
    /\ acceptors = NoneObject
    /\ reporters = NoneObject
    /\ InitCache({NoneObject})
    /\ InitHistory
    /\ NoReport
    /\ NoCall

\* what the rate_limit request answers while the API has q lookups left
RateLimitAnswers(q) ==
    {rl \in RateLimitKinds : (rl = "zero" => q = 0) /\ (rl = "quota" => q > 0)}

\* what the license request answers while the API has q lookups left
LookupAnswers(q) ==
    IF q = 0 THEN {"bad", "ConnectionError"} ELSE LookupKinds

\* thread t runs do_recognize up to and including self._can_call_github()
ThreadCheck(t) ==
    /\ pc = "threads"
    /\ workers[t].pc = "do_recognize"
    /\ IF ~GitHubApplicable(entries[t].package)
       THEN workers' = [workers EXCEPT ![t] = [pc |-> "returned False", rate |-> "none"]]
       ELSE \E rl \in RateLimitAnswers(quota) :
            \E can \in {_can_call_github(rl)} :
               workers' = [workers EXCEPT ![t] =
                   [pc |-> IF can.raised # "none" THEN "raised"
                           ELSE IF ~can.ret THEN "returned False"
                           ELSE "_fill_license_for_github",
                    rate |-> rl]]
    /\ UNCHANGED <<pc, error, trace, config_vars, entries, cache_vars, recognize_vars>>
    /\ UNCHANGED <<accept_vars, order, api_vars, report_vars, call_vars, quota, lookups>>

\* thread t runs self._fill_license_for_github(owner, project, entry) and returns
ThreadLookup(t) ==
    /\ pc = "threads"
    /\ workers[t].pc = "_fill_license_for_github"
    /\ clock < MaxClock
    /\ clock' = clock + 1
    /\ \E lk \in LookupAnswers(quota) :
       \E path \in {Split(entries[t].package, "/")} :
       \E fill \in {_fill_license_for_github(path[2], path[3], entries[t], lk, clock)} :
          /\ entries' = [entries EXCEPT ![t] = fill.entry]
          /\ workers' = [workers EXCEPT ![t].pc =
                            IF fill.raised # "none" THEN "raised" ELSE "returned True"]
          /\ lookups' = Append(lookups, [thread |-> t, quota |-> quota,
                                         rate |-> workers[t].rate, answer |-> lk])
          /\ quota' = IF quota > 0 /\ lk # "ConnectionError" THEN quota - 1 ELSE quota
    /\ UNCHANGED <<pc, error, trace, config_vars, cache_vars, accept_vars, order, api_vars>>
    /\ UNCHANGED <<ei, ri, calls, zero_seen, first_run, runs, report_vars, call_vars>>

NextThreads ==
    \/ \E t \in DOMAIN workers : ThreadCheck(t)
    \/ \E t \in DOMAIN workers : ThreadLookup(t)

SpecThreads == InitThreads /\ [][NextThreads]_vars

NextAccept ==
    \/ ScanAll
    \/ Recognize
    \/ CouldNotRecognize
    \/ RecognizeAllReturn
    \/ AcceptAll
    \/ AcceptAgain

SpecAccept == InitAccept /\ [][NextAccept]_vars

----------------------------------------------------------------------------
(* scan_all *)

InSeq(x, seq) == \E n \in 1..Len(seq) : seq[n] = x

\* scan_all has returned and no later stage has touched the entries
ScanAllReturned == pc = "recognize_all" /\ runs = 1 /\ calls = <<>>

HandlingScanners == {i \in 1..Len(scanners) : scanners[i].handles}

Reported(i) == {scanners[i].out[k] : k \in 1..Len(scanners[i].out)}

FirstReporter(p) ==
    CHOOSE i \in HandlingScanners :
        /\ p \in Reported(i)
        /\ \A j \in HandlingScanners : p \in Reported(j) => i <= j

\* C1: the list returned by scan_all holds exactly the packages reported by the
\* scanners whose can_handle is true, each package once, and the entry of a
\* package is the one made by the first such scanner that reports it.
C1_ScanAllMergesFirstWins ==
    ScanAllReturned =>
        /\ {entries[k].package : k \in 1..Len(entries)}
               = UNION {Reported(i) : i \in HandlingScanners}
        /\ \A k, l \in 1..Len(entries) : k # l => entries[k].package # entries[l].package
        /\ \A k \in 1..Len(entries) :
               entries[k] = LicenseReportEntry(entries[k].package,
                                               scanners[FirstReporter(entries[k].package)].name)

\* two scanners that handle the directory report a common package, and a third
\* package comes from the second of them only
C1_Witness ==
    /\ ScanAllReturned
    /\ \E i, j \in HandlingScanners :
           /\ i < j
           /\ Reported(i) \cap Reported(j) # {}
           /\ Reported(j) \ Reported(i) # {}

NoScannerHandles == \A i \in 1..Len(scanners) : ~scanners[i].handles

\* C2: when no scanner of the list can handle the directory, scan_all raises
\* instead of returning, and scan() runs no recognizer, no acceptor and no
\* reporter afterwards.
C2_NoScannerIsFatal ==
    (pc # "scan_all" /\ NoScannerHandles) =>
        /\ pc = "aborted"
        /\ error = [exc |-> "RuntimeError", stage |-> "scan_all"]
        /\ trace = <<"scan_all">>
        /\ entries = <<>>
        /\ calls = <<>>
        /\ accept_calls = <<>>
        /\ unaccepted = <<>>

\* a list of scanners none of which handles the directory has been scanned
C2_Witness ==
    /\ pc = "aborted"
    /\ error.stage = "scan_all"
    /\ scanners # <<>>
    /\ NoScannerHandles

----------------------------------------------------------------------------
(* Recognizer.recognize and the cache *)

CachedLicenseName(c) ==
    IF c.cached = NoneObject THEN None ELSE c.cached.license_name

HitEffects(c) ==
    /\ c.hit => ~c.did /\ c.ret /\ c.raised = "none" /\ c.after = c.cached
    /\ ~c.hit => c.did

\* C3 as stated: a recognizer with a cache has a cache hit exactly when the cache
\* holds an entry for the package whose license_name is non-empty; a hit copies
\* the cached fields, returns true and never invokes do_recognize; a missing
\* entry or an empty or absent license_name leads to do_recognize.
C3_HitIffNonEmptyName ==
    \A k \in 1..Len(calls) :
        recognizers[calls[k].recognizer].cache =>
            /\ calls[k].hit <=> Truthy(CachedLicenseName(calls[k]))
            /\ HitEffects(calls[k])

\* C3 amended: the hit is decided by license_name being present (not None), so
\* a cached entry whose license_name is the empty string is a hit too.
C3_HitIffNamePresent ==
    \A k \in 1..Len(calls) :
        recognizers[calls[k].recognizer].cache =>
            /\ calls[k].hit <=> CachedLicenseName(calls[k]) # None
            /\ HitEffects(calls[k])

\* a hit on a cached entry whose license_name is empty, and a call of
\* do_recognize for a package whose cached entry has no license_name
C3_Witness ==
    /\ \E k \in 1..Len(calls) :
           calls[k].hit /\ CachedLicenseName(calls[k]) = <<>>
    /\ \E k \in 1..Len(calls) :
           /\ recognizers[calls[k].recognizer].cache
           /\ calls[k].cached # NoneObject
           /\ calls[k].did

LicenseFields == {"license_name", "license_url", "license_encoded"}
ProvenanceFields == {"license_recognizer_name", "license_recognized_at"}

RecognizedInCache0(p) == p \in DOMAIN resolved0 /\ resolved0[p].license_name # None

EveryRecognizerCached ==
    /\ recognizers # <<>>
    /\ \A j \in 1..Len(recognizers) : recognizers[j].cache

SecondRunReturned == pc = "accept_all" /\ runs >= 2

\* C4: with recognizers that consult the cache, an entry whose package the cache
\* already held as recognized has the same license fields after one and after two
\* (or more) calls of recognize_all, and the later calls leave
\* license_recognizer_name and license_recognized_at as the first left them, equal
\* to the cached values.
C4_RecognitionIdempotentOnCache ==
    (SecondRunReturned /\ EveryRecognizerCached) =>
        \A i \in 1..Len(entries) :
            RecognizedInCache0(entries[i].package) =>
                \A f \in LicenseFields \cup ProvenanceFields :
                    /\ entries[i][f] = first_run[i][f]
                    /\ entries[i][f] = resolved0[entries[i].package][f]

\* recognize_all has run twice over an entry whose package was cached as recognized
C4_Witness ==
    /\ SecondRunReturned
    /\ EveryRecognizerCached
    /\ \E i \in 1..Len(entries) : RecognizedInCache0(entries[i].package)
    /\ \E k \in 1..Len(calls) : calls[k].run = 2 /\ calls[k].hit

----------------------------------------------------------------------------
(* recognize_all *)

EarlierCalls(k) ==
    {l \in 1..(k - 1) : calls[l].run = calls[k].run /\ calls[l].entry = calls[k].entry}

\* C5: for every entry the recognizers are invoked in list order, none is invoked
\* after one has returned true, and the entry stays as the first successful
\* recognizer left it.
C5_FirstRecognizerWins ==
    \A k \in 1..Len(calls) :
        /\ calls[k].recognizer = Cardinality(EarlierCalls(k)) + 1
        /\ \A l \in EarlierCalls(k) : ~calls[l].ret
        /\ (calls[k].ret /\ calls[k].raised = "none") => entries[calls[k].entry] = calls[k].after

\* the first of two prefix recognizers that both match t/x has recognized it
C5_Witness ==
    /\ pc = "accept_all"
    /\ Len(recognizers) = 2
    /\ \E k \in 1..Len(calls) :
           /\ calls[k].recognizer = 1
           /\ calls[k].did
           /\ calls[k].ret
           /\ recognizers[2].type = "CommonPrefixRecognizer"
           /\ StartsWith(calls[k].before.package, recognizers[2].prefix)
           /\ entries[calls[k].entry].license_name = recognizers[1].license_name

IsGitHubCall(c) == recognizers[c.recognizer].type = "GitHubRecognizer" /\ c.did

\* C6: a license lookup of GitHubRecognizer answered by a non-2xx response or a
\* connection error makes recognize return false, writes nothing to the cache
\* and lets the next recognizer of the list be tried for the same entry.
C6_FailedLookupIsNonRecognition ==
    \A k \in 1..Len(calls) :
        (IsGitHubCall(calls[k]) /\ calls[k].lookup \in {"bad", "ConnectionError"}) =>
            /\ ~calls[k].ret
            /\ ~calls[k].wrote
            /\ (calls[k].recognizer < Len(recognizers) /\ k < Len(calls)) =>
                   /\ calls[k + 1].entry = calls[k].entry
                   /\ calls[k + 1].recognizer = calls[k].recognizer + 1

UsesGitHub(c) ==
    recognizers[c.recognizer].type \in {"GitHubRecognizer", "MappedToGitHubRecognizer"} /\ c.did

\* C7 as stated: once a rate-limit check has reported a remaining quota of zero,
\* that call and every later do_recognize call returns non-recognition.
C7_ZeroQuotaLatches ==
    \A k \in 1..Len(calls) :
        (UsesGitHub(calls[k]) /\ calls[k].raised = "none"
            /\ (calls[k].after_zero \/ calls[k].rate = "zero")) => ~calls[k].ret

\* C7 amended: the call whose rate-limit check reports a remaining quota of zero
\* returns non-recognition without a lookup, without touching the entry or the
\* cache and without raising; every call makes its own check, and a call whose
\* check does not report zero issues the lookup whatever earlier checks reported.
C7_ZeroQuotaStopsThatCall ==
    \A k \in 1..Len(calls) :
        /\ calls[k].rate = "zero" =>
               /\ ~calls[k].ret
               /\ calls[k].raised = "none"
               /\ calls[k].lookup = "none"
               /\ calls[k].after = calls[k].before
               /\ ~calls[k].wrote
        /\ calls[k].rate \in {"quota", "bad"} => calls[k].lookup # "none"

\* a check reports zero and a later check reports quota again
C7_Witness ==
    \E k, l \in 1..Len(calls) :
        /\ k < l
        /\ calls[k].rate = "zero"
        /\ calls[l].after_zero
        /\ calls[l].rate = "quota"
        /\ calls[l].ret

\* C8: no failure while recognizing an entry (connection error or non-2xx on the
\* rate-limit check or on the lookup, a lookup response without license data)
\* aborts recognize_all.
C8_RecognizeAllNeverAborts == ~(pc = "aborted" /\ error.stage = "recognize_all")

----------------------------------------------------------------------------
(* accept_all *)

AcceptAllReturned == InSeq("accept_all", trace)

Acceptors == IF acceptors = NoneObject THEN <<>> ELSE acceptors.items

\* C9: for every entry the acceptors are consulted in list order up to the first
\* that returns true or false, that result is the result of the chain, and no
\* later acceptor is consulted; if all return unknown the entry is not accepted.
C9_FirstDecisionWins ==
    AcceptAllReturned =>
        \A i \in 1..Len(entries) :
            LET c == accept_calls[i].consulted
                n == Len(accept_calls[i].consulted)
            IN /\ \A m \in 1..n : c[m] = m
               /\ n <= Len(Acceptors)
               /\ \A m \in 1..(n - 1) : accept_or_reject(Acceptors[m], entries[i]) = PyNone
               /\ IF n > 0 /\ accept_or_reject(Acceptors[n], entries[i]) # PyNone
                  THEN accept_calls[i].result = accept_or_reject(Acceptors[n], entries[i])
                  ELSE n = Len(Acceptors) /\ accept_calls[i].result = PyFalse
               /\ InSeq(i, unaccepted) <=> accept_calls[i].result # PyTrue

\* with two acceptors, one entry is accepted by the second after the first
\* returned unknown, and another is rejected by the first alone
C9_Witness ==
    /\ AcceptAllReturned
    /\ Len(Acceptors) = 2
    /\ \E i \in 1..Len(entries) :
           /\ accept_or_reject(Acceptors[1], entries[i]) = PyNone
           /\ accept_or_reject(Acceptors[2], entries[i]) = PyTrue
           /\ ~InSeq(i, unaccepted)
    /\ \E i \in 1..Len(entries) :
           /\ accept_or_reject(Acceptors[1], entries[i]) = PyFalse
           /\ accept_or_reject(Acceptors[2], entries[i]) = PyTrue
           /\ accept_calls[i].consulted = <<1>>
           /\ InSeq(i, unaccepted)

\* C10: after accept_all no entry without a license_name is accepted: it is
\* always in the returned unaccepted list, whatever the acceptors are.
C10_NoLicenseNeverAccepted ==
    AcceptAllReturned =>
        \A i \in 1..Len(entries) :
            entries[i].license_name = None => InSeq(i, unaccepted)

----------------------------------------------------------------------------
(* accept_all and JsonFileLicenseAcceptor *)

\* what each acceptor of the list answers for entry i, asked on its own
Answers(i) == [j \in 1..Len(Acceptors) |-> accept_or_reject(Acceptors[j], entries[i])]

Deciders(i) == {j \in 1..Len(Acceptors) : Answers(i)[j] # PyNone}

FirstDecision(i) ==
    IF Deciders(i) = {} THEN PyNone
    ELSE Answers(i)[CHOOSE j \in Deciders(i) : \A k \in Deciders(i) : j <= k]

\* C11: accept_all returns exactly the entries whose chain result is not true, in
\* input order: an entry is returned iff its first non-unknown acceptor result is
\* false or every acceptor returned unknown; an accepted entry is not returned.
C11_UnacceptedIsNotTrue ==
    AcceptAllReturned =>
        /\ \A m \in 1..Len(unaccepted) : unaccepted[m] \in 1..Len(entries)
        /\ \A m \in 1..(Len(unaccepted) - 1) : unaccepted[m] < unaccepted[m + 1]
        /\ \A i \in 1..Len(entries) :
               InSeq(i, unaccepted) <=> FirstDecision(i) \in {PyFalse, PyNone}

\* accept_all has returned a rejected entry and a never-classified entry, in input
\* order, and has left out an accepted one
C11_Witness ==
    /\ AcceptAllReturned
    /\ \E i, j, k \in 1..Len(entries) :
           /\ FirstDecision(i) = PyFalse /\ InSeq(i, unaccepted)
           /\ FirstDecision(j) = PyNone /\ InSeq(j, unaccepted)
           /\ FirstDecision(k) = PyTrue /\ ~InSeq(k, unaccepted)
    /\ Len(unaccepted) >= 2

\* the answer acceptor j gave for entry i during accept_all, for a consulted j
Answered(i, j) ==
    IF accept_calls[i].decided /\ j = Len(accept_calls[i].consulted)
    THEN accept_calls[i].result
    ELSE PyNone

JsonConsulted(i) ==
    {j \in 1..Len(accept_calls[i].consulted) : Acceptors[j].type = "JsonFileLicenseAcceptor"}

\* an allow-rule for the entry's license name whose package pattern, if it
\* carries one, matches the entry's package
HasAllowRule(acceptor, entry) ==
    \E r \in 1..Len(acceptor.allowedLicenses) :
        LET rule == acceptor.allowedLicenses[r] IN
        /\ rule.moduleLicense = entry.license_name
        /\ rule.moduleName = None \/ _pattern_matches(entry.package, rule.moduleName)

----------------------------------------------------------------------------
(* the acceptance fields of an entry *)

\* the class name of the acceptor that decided entry i in the calls recorded in ac
DeciderName(ac, i) == <<Acceptors[Len(ac[i].consulted)].type>>

\* entry i carries the decision recorded in ac as data
CarriesDecision(ac, i) ==
    /\ {"acceptable", "acceptor_name"} \subseteq DOMAIN entries[i]
    /\ entries[i].acceptable = ac[i].result
    /\ entries[i].acceptor_name = DeciderName(ac, i)

\* entry i carries no decision
CarriesNoDecision(i) ==
    /\ "acceptable" \in DOMAIN entries[i] => entries[i].acceptable = None
    /\ "acceptor_name" \in DOMAIN entries[i] => entries[i].acceptor_name = None

\* C13: after accept_all an entry for which some acceptor returned true or false
\* has acceptable equal to the first such result and acceptor_name naming the
\* acceptor that gave it; an entry no acceptor decided has both unset and is
\* otherwise as it was before the call.
C13_DecisionStoredOnEntry ==
    AcceptAllReturned =>
        \A i \in 1..Len(entries) :
            IF accept_calls[i].decided
            THEN CarriesDecision(accept_calls, i)
            ELSE CarriesNoDecision(i) /\ \A f \in Fields : entries[i][f] = first_run[i][f]

----------------------------------------------------------------------------
(* JsonFileLicenseCache *)

\* C15: write(entry) with entry.package unset fails with an invalid-entry error
\* and leaves the cache as it was: nothing is stored and the dirty flag is not set.
C15_WriteWithoutPackageFails ==
    (last_op.op = "write" /\ last_op.entry.package = None) =>
        /\ last_op.raised = "InvalidEntryError"
        /\ resolved = last_op.resolved
        /\ None \notin DOMAIN resolved
        /\ has_changed = last_op.has_changed

\* what read(package) is to return: the last entry written with that package, else
\* the entry loaded from the file, else None
Upserted(package) ==
    IF package \in DOMAIN written THEN written[package]
    ELSE IF package \in DOMAIN resolved0 THEN EntryFromDict(resolved0[package])
    ELSE NoneObject

C17_OnlyFlushPersists ==
    /\ last_op.op = "write" => file = last_op.file
    /\ last_op.op = "update_cache_file" =>
           /\ last_op.wrote <=> last_op.has_changed
           /\ last_op.ret = PyTrue <=> last_op.wrote
           /\ ~last_op.wrote => file = last_op.file

\* the state after a fresh cache was constructed from the file that
\* update_cache_file had just written, and then read
RoundTripRead ==
    /\ last_op.op = "__init__"
    /\ last_op.after.op = "update_cache_file"
    /\ last_op.after.wrote
    /\ last_read.op = "read"

FilePackages == [i \in 1..Len(file.items) |-> JsonLoadValue(file.items[i].package)]

\* C19: whenever update_cache_file writes the file, the list written holds every
\* cached entry exactly once, in ascending order of package.
C19_FileSortedAndComplete ==
    (last_op.op = "update_cache_file" /\ last_op.wrote) =>
        /\ Len(file.items) = Cardinality(DOMAIN resolved)
        /\ \A k \in DOMAIN resolved :
               \E i \in 1..Len(file.items) : JsonLoadObject(file.items[i]) = resolved[k]
        /\ \A i \in 1..(Len(file.items) - 1) : StrLess(FilePackages[i], FilePackages[i + 1])

\* the file was written from a cache whose entries were written in descending
\* order of package
C19_Witness ==
    /\ last_op.op = "update_cache_file"
    /\ last_op.wrote
    /\ Len(order) >= 3
    /\ \E i \in 1..(Len(order) - 1) : StrLess(order[i + 1], order[i])

----------------------------------------------------------------------------
(* scan *)

StageOrder == <<"scan_all", "recognize_all", "accept_all", "report_all">>

\* C20: scan() calls the stages in the order scan_all, recognize_all, accept_all,
\* report_all; report_all, called after acceptance with the entries, the
\* unaccepted entries and the reporters, returns, and scan() then returns the
\* pair (entries, unaccepted entries).
C20_StagesInOrderThenReturn ==
    /\ Len(trace) <= Len(StageOrder)
    /\ \A k \in 1..Len(trace) : trace[k] = StageOrder[k]
    /\ InSeq("report_all", trace) =>
           /\ error = NoError
           /\ pc = "returned"
           /\ unaccepted = accept_all(entries, acceptors)

----------------------------------------------------------------------------
(* report_all *)

\* what generate_report call k left behind it: the state before the next call,
\* or the present state for the last call
AfterReport(k) ==
    IF k < Len(report_calls)
    THEN [entries |-> report_calls[k + 1].entries,
          resolved |-> report_calls[k + 1].resolved,
          has_changed |-> report_calls[k + 1].has_changed]
    ELSE [entries |-> entries, resolved |-> resolved, has_changed |-> has_changed]

\* C21: reporting consumes the entries read-only: no call of generate_report made
\* by report_all changes a field of an entry, the contents of the cache or its
\* dirty flag.
C21_ReportingIsReadOnly ==
    \A k \in 1..Len(report_calls) :
        /\ AfterReport(k).entries = report_calls[k].entries
        /\ AfterReport(k).resolved = report_calls[k].resolved
        /\ AfterReport(k).has_changed = report_calls[k].has_changed

----------------------------------------------------------------------------
(* what the recognizers leave on an entry *)

FreshSuccess(c) == c.did /\ c.ret /\ c.raised = "none"

\* C22: whenever recognize returns true without a cache hit, the entry has
\* license_name, license_recognized_at and license_recognizer_name set and is the
\* entry written to the cache; hence every entry the recognition stage writes to
\* the cache has a license_name.
C22_RecognizedEntryIsComplete ==
    \A k \in 1..Len(calls) :
        /\ FreshSuccess(calls[k]) =>
               /\ calls[k].after.license_name # None
               /\ calls[k].after.license_recognized_at # None
               /\ calls[k].after.license_recognizer_name # None
               /\ recognizers[calls[k].recognizer].cache => calls[k].wrote
               /\ (calls[k].wrote /\ k = Len(calls)) =>
                      resolved[calls[k].after.package] = asdict(calls[k].after)
        /\ calls[k].wrote => calls[k].after.license_name # None

IsPrefixCall(c) == recognizers[c.recognizer].type = "CommonPrefixRecognizer" /\ c.did

\* C23: CommonPrefixRecognizer recognizes exactly the entries whose package starts
\* with its prefix, gives them its fixed license name and URL, and renames them:
\* after a successful recognition entry.package equals the prefix, so that all the
\* matching dependencies end up as one package.
C23_PrefixRecognizerRenames ==
    \A k \in 1..Len(calls) :
        IsPrefixCall(calls[k]) =>
            LET rec == recognizers[calls[k].recognizer] IN
            /\ calls[k].ret <=> StartsWith(calls[k].before.package, rec.prefix)
            /\ calls[k].ret =>
                   /\ calls[k].after.license_name = rec.license_name
                   /\ calls[k].after.license_url = rec.license_url
                   /\ calls[k].after.package = rec.prefix

SlashCount(s) == Cardinality({i \in 1..Len(s) : s[i] = "/"})

\* three '/'-separated segments, the first of which is github.com
GitHubShape(p) == SlashCount(p) = 2 /\ StartsWith(p, GitHubCom \o <<"/">>)

\* C24: GitHubRecognizer issues a license lookup only for a package of exactly
\* three '/'-separated segments whose first segment is github.com, and only after
\* a rate-limit check made in the same call did not report a remaining quota of
\* zero; for any other package do_recognize returns false without issuing any
\* request and without changing the entry.
C24_LookupOnlyForGitHubPackages ==
    \A k \in 1..Len(calls) :
        IsGitHubCall(calls[k]) =>
            /\ calls[k].lookup # "none" =>
                   /\ GitHubShape(calls[k].before.package)
                   /\ calls[k].rate \in {"quota", "bad"}
            /\ ~GitHubShape(calls[k].before.package) =>
                   /\ ~calls[k].ret
                   /\ calls[k].raised = "none"
                   /\ calls[k].rate = "none"
                   /\ calls[k].lookup = "none"
                   /\ calls[k].after = calls[k].before

\* GitHubRecognizer has looked up github.com/a/b after a check that reported
\* quota, has turned down github.com/a and t/x/x without a request, and has
\* issued no lookup after a check that reported zero
C24_Witness ==
    /\ \E k \in 1..Len(calls) :
           /\ IsGitHubCall(calls[k])
           /\ calls[k].before.package \in {PkgGitHubShort, PkgThree}
           /\ ~calls[k].ret
    /\ \E k \in 1..Len(calls) :
           /\ IsGitHubCall(calls[k])
           /\ calls[k].before.package = PkgGitHub
           /\ calls[k].rate \in {"quota", "zero"}
           /\ calls[k].lookup = IF calls[k].rate = "quota" THEN "ok" ELSE "none"

IsMappedCall(c) == recognizers[c.recognizer].type = "MappedToGitHubRecognizer" /\ c.did

\* the owner and the project of the GitHub package a package is mapped to
MappedPath(c) == Split(recognizers[c.recognizer].mapping[c.before.package], "/")

\* C25: MappedToGitHubRecognizer recognizes only packages that are keys of its
\* mapping; on success the entry keeps its own package, takes the license fields
\* found for the mapped GitHub name, and has license_recognizer_name set to the
\* mapped recognizer's own type, not the delegate's; on failure the entry is left
\* as it was.
C25_MappedKeepsPackageAndStampsItself ==
    \A k \in 1..Len(calls) :
        IsMappedCall(calls[k]) =>
            LET c == calls[k]
                mapping == recognizers[c.recognizer].mapping
            IN
            /\ c.before.package \notin DOMAIN mapping =>
                   ~c.ret /\ c.rate = "none" /\ c.lookup = "none"
            /\ FreshSuccess(c) =>
                   /\ c.before.package \in DOMAIN mapping
                   /\ c.after.package = c.before.package
                   /\ c.after.dependancy_scanner_name = c.before.dependancy_scanner_name
                   /\ c.after.license_recognizer_name = <<"MappedToGitHubRecognizer">>
                   /\ c.after.license_recognized_at # None
                   /\ IF c.lookup = "ok"
                      THEN /\ c.after.license_name
                                  = RemoteLicense(MappedPath(c)[2], MappedPath(c)[3])
                           /\ c.after.license_url
                                  = <<"u", "/">> \o MappedPath(c)[2] \o <<"/">> \o MappedPath(c)[3]
                           /\ c.after.license_encoded # None
                      ELSE \A f \in LicenseFields : c.after[f] = None
            /\ ~FreshSuccess(c) => c.after = c.before

\* the mapped recognizer has turned down a package that is no key of its mapping
\* and has recognized tm through the license of github.com/c/d
C25_Witness ==
    /\ \E k \in 1..Len(calls) :
           /\ IsMappedCall(calls[k])
           /\ calls[k].before.package \notin DOMAIN recognizers[calls[k].recognizer].mapping
           /\ ~calls[k].ret
    /\ \E k \in 1..Len(calls) :
           /\ IsMappedCall(calls[k])
           /\ FreshSuccess(calls[k])
           /\ calls[k].lookup = "ok"
           /\ calls[k].after.package = PkgMapped
           /\ calls[k].after.license_name = LicenseApache

----------------------------------------------------------------------------
(* the package pattern of an allow-rule *)

\* the glob: '*' matches any run of characters, possibly empty, every other
\* character matches itself, and the whole of s has to be matched
RECURSIVE GlobMatch(_, _)
GlobMatch(glob, s) ==
    IF glob = <<>> THEN s = <<>>
    ELSE IF Head(glob) = "*"
    THEN GlobMatch(Tail(glob), s) \/ (s # <<>> /\ GlobMatch(glob, Tail(s)))
    ELSE s # <<>> /\ Head(s) = Head(glob) /\ GlobMatch(Tail(glob), Tail(s))

\* C26: the package pattern of an allow-rule is a glob matched against the whole
\* package name: '.' matches only a literal '.', '*' matches any run of
\* characters, every other character matches itself, a match of a prefix or of a
\* substring is no match, and an absent pattern matches every package.
C26_PatternIsGlob ==
    applied.op = "_pattern_matches" =>
        /\ applied.raised = "none"
        /\ applied.ret = PyTrue <=>
               (~Truthy(args.pattern) \/ GlobMatch(args.pattern, args.package))

----------------------------------------------------------------------------
(* GoModuleDependancyScanner.scan *)

\* the positions at which a whitespace-separated field of the line starts
FieldStarts(line) ==
    {i \in 1..Len(line) :
        line[i] \notin Whitespace /\ (i = 1 \/ line[i - 1] \in Whitespace)}

\* the field that starts at position i: up to the next whitespace or the end
FieldAt(line, i) ==
    LET stops == {j \in i..Len(line) : line[j] \in Whitespace}
        last == IF stops = {} THEN Len(line)
                ELSE (CHOOSE j \in stops : \A o \in stops : j <= o) - 1
    IN SubSeq(line, i, last)

\* field number n of the line, counted from 1
FieldNo(line, n) ==
    FieldAt(line, CHOOSE i \in FieldStarts(line) :
                      Cardinality({j \in FieldStarts(line) : j < i}) = n - 1)

\* the line gives an entry: exactly three fields, the second of which is not 'true'
GivesEntry(line) ==
    Cardinality(FieldStarts(line)) = 3 /\ FieldNo(line, 2) # StrTrue

KeptLines(lines) == SelectSeq([i \in 1..Len(lines) |-> i], LAMBDA i : GivesEntry(lines[i]))

\* C27: GoModuleDependancyScanner.scan returns one entry per output line that has
\* exactly three whitespace-separated fields and whose is-main flag is not 'true',
\* in line order; a line with another number of fields is skipped without
\* aborting the scan, and every entry has package set to the first field,
\* dependancy_scanner_name set to the name of the scanner and no license field set.
C27_GoScanKeepsWellFormedNonMain ==
    applied.op = "scan" =>
        LET kept == KeptLines(args.lines) IN
        /\ applied.raised = "none"
        /\ Len(applied.ret) = Len(kept)
        /\ \A n \in 1..Len(kept) :
               /\ applied.ret[n].package = FieldNo(args.lines[kept[n]], 1)
               /\ applied.ret[n].dependancy_scanner_name = GoModuleDependancyScannerName
               /\ \A f \in Fields \ {"package", "dependancy_scanner_name"} :
                      applied.ret[n][f] = None

\* the output held the line of the main module, a line of four fields and a line
\* of a dependency, and only the last gave an entry
C27_Witness ==
    /\ applied.op = "scan"
    /\ Len(args.lines) = 3
    /\ args.lines[1] = GoLine(<<"m">>, StrTrue, StrFalse)
    /\ args.lines[2] = GoLine(<<"d", " ", "x">>, StrFalse, StrFalse)
    /\ args.lines[3] = <<"b", "\t">> \o StrFalse \o <<" ", " ">> \o StrTrue
    /\ Len(applied.ret) = 1
    /\ applied.ret[1].package = <<"b">>

----------------------------------------------------------------------------
(* do_recognize called by several threads *)

\* C28: when recognize calls run concurrently against the same remote quota, the
\* rate-limit check and the lookup that follows it act as one critical section:
\* a lookup that follows a check that reported quota left is issued while the
\* real quota is still above zero, so no more lookups are issued than the quota
\* that was available.
C28_CheckThenLookupIsAtomic ==
    \A n \in 1..Len(lookups) :
        lookups[n].rate = "quota" => lookups[n].quota > 0

\* C29: flush clears the dirty state: an update_cache_file that follows an
\* update_cache_file which wrote the file, with no write in between, writes
\* nothing and returns false
C29_FlushClearsDirtyState ==
    (last_op.op = "update_cache_file" /\ last_op.after_flush) =>
        /\ ~last_op.wrote
        /\ last_op.ret = PyFalse

\* C30: recognition never changes what scanning produced: every recognize call,
\* whether it is answered from the cache, by a recognizer or by none, leaves
\* package and dependancy_scanner_name of its entry as they were, and after
\* recognize_all the entries carry the values scan_all gave them
C30_RecognitionKeepsScanFields ==
    /\ \A k \in 1..Len(calls) :
           /\ calls[k].after.package = calls[k].before.package
           /\ calls[k].after.dependancy_scanner_name = calls[k].before.dependancy_scanner_name
    /\ InSeq("recognize_all", trace) =>
           \A i \in 1..Len(entries) :
               /\ entries[i].package = scan_all(scanners).value[i].package
               /\ entries[i].dependancy_scanner_name
                      = scan_all(scanners).value[i].dependancy_scanner_name

====
